---- MODULE Spec2Model ----
(***************************************************************************)
(* Model of libubox's blobmsg_json.c: the JSON-tree -> blob attribute      *)
(* encoder (blobmsg_add_json_element, blobmsg_add_json_from_string) and    *)
(* the blob attribute -> JSON text formatter (blobmsg_format_json_with_cb) *)
(* with its growable string buffer (struct strbuf, blobmsg_puts) and the   *)
(* string escaper (blobmsg_format_string).                                 *)
(*                                                                         *)
(* Text is a sequence of bytes, each byte a number in 0..255.  A C string  *)
(* is the sequence of its bytes without the terminating NUL.               *)
(***************************************************************************)
EXTENDS Integers, Sequences, FiniteSets, TLC

VARIABLES
    b,          \* the destination container (struct blob_buf)
    ret,        \* return value of the last encoder call
    out,        \* result of the last blobmsg_format_json_with_cb call
    s,          \* the struct strbuf of the last formatting call, as it ended
    call,       \* the last call made and its arguments
    calls,      \* the number of encoder calls made on the container
    src,        \* the members whose encoding the container holds
    charSigned  \* whether plain char is signed in this build

vars == <<b, ret, out, s, call, calls, src, charSigned>>

(***************************************************************************)
(* Bounds of the model.                                                    *)
(***************************************************************************)
MaxCalls == 1       \* encoder calls made on one container
MaxFailAt == 3      \* the allocation that fails is among the first MaxFailAt

(***************************************************************************)
(* Program constants.                                                      *)
(***************************************************************************)
GrowStep == 16      \* s->len += 16
SPACE == 32         \* ' ' in "*p < ' '"

(***************************************************************************)
(* Generic helpers.                                                        *)
(***************************************************************************)
RECURSIVE Fill(_, _)
Fill(n, v) ==
    IF n = 0 THEN <<>>
    ELSE LET half == Fill(n \div 2, v)
         IN half \o half \o (IF n % 2 = 1 THEN <<v>> ELSE <<>>)

Pow2(n) == 2 ^ n

(***************************************************************************)
(* The json-c value tree (json_object).  A NULL json_object pointer, which *)
(* is how json-c represents the JSON value null, is the node of type       *)
(* "null"; "double" stands for every json_type the encoder has no case for.*)
(***************************************************************************)
JNull == [type |-> "null", i |-> 0, s |-> <<>>, kids |-> <<>>]
JDouble == [type |-> "double", i |-> 0, s |-> <<>>, kids |-> <<>>]
JInt(n) == [type |-> "int", i |-> n, s |-> <<>>, kids |-> <<>>]
JBool(v) == [type |-> "boolean", i |-> IF v THEN 1 ELSE 0, s |-> <<>>, kids |-> <<>>]
JStr(str) == [type |-> "string", i |-> 0, s |-> str, kids |-> <<>>]
RECURSIVE ArrKids(_)
ArrKids(elems) ==
    IF elems = <<>> THEN <<>>
    ELSE <<[key |-> <<>>, val |-> Head(elems)]>> \o ArrKids(Tail(elems))
RECURSIVE ObjKids(_)
ObjKids(members) ==
    IF members = <<>> THEN <<>>
    ELSE <<[key |-> Head(members)[1], val |-> Head(members)[2]]>> \o ObjKids(Tail(members))
JArr(elems) == [type |-> "array", i |-> 0, s |-> <<>>, kids |-> ArrKids(elems)]
JObj(members) == [type |-> "object", i |-> 0, s |-> <<>>, kids |-> ObjKids(members)]

json_object_get_type(obj) == obj.type
json_object_get_string(obj) == obj.s
json_object_get_boolean(obj) == obj.i
json_object_get_int(obj) == obj.i

(***************************************************************************)
(* The blob attribute container (blob.h, blobmsg.h).  An attribute is      *)
(*   id    its BLOBMSG_TYPE_* tag                                          *)
(*   name  its name ("" for an anonymous attribute)                        *)
(*   hi    bit 31 of the integer payload                                   *)
(*   num   the low 31 bits of the integer payload, so that the unsigned    *)
(*         value is hi * 2^31 + num (a wider payload is out of the model's *)
(*         arithmetic: its 64-bit attributes hold small values)            *)
(*   str   the string payload                                              *)
(*   kids  the child attributes of a table or array                        *)
(*   plen  blob_len(attr): the payload length in bytes, name header        *)
(*         included                                                        *)
(* A blob_buf is the stack of the scopes that are open, the container's    *)
(* head at the bottom, and a log of the primitives called on it.           *)
(***************************************************************************)
Pad4(n) == ((n + 3) \div 4) * 4
blobmsg_hdrlen(name) == Pad4(2 + Len(name) + 1)
blob_pad_len(attr) == Pad4(4 + attr.plen)

RECURSIVE SumPadLen(_)
SumPadLen(kids) ==
    IF kids = <<>> THEN 0 ELSE blob_pad_len(Head(kids)) + SumPadLen(Tail(kids))

Attr(id, name, hi, num, str, kids, dlen) ==
    [id |-> id, name |-> name, hi |-> hi, num |-> num, str |-> str, kids |-> kids,
     plen |-> blobmsg_hdrlen(name) + dlen]

\* conversion of an int argument to uint32_t: <<bit 31, low 31 bits>>
ToU32(v) == IF v >= 0 THEN <<0, v>> ELSE <<1, (v + 2147483647) + 1>>

blob_len(attr) == attr.plen
blob_id(attr) == attr.id
blobmsg_name(attr) == attr.name
blobmsg_data_len(attr) == attr.plen - blobmsg_hdrlen(attr.name)

EmptyBuf ==
    [stack |-> << [id |-> "HEAD", name |-> <<>>, kids |-> <<>>] >>, log |-> <<>>]

\* blob_put: append an attribute to the scope that is open
blobmsg_add_field(buf, attr) ==
    [buf EXCEPT !.stack[Len(buf.stack)].kids = Append(@, attr),
                !.log = Append(@, [ev |-> "add", id |-> attr.id, cookie |-> 0])]

blobmsg_add_string(buf, name, str) ==
    blobmsg_add_field(buf, Attr("STRING", name, 0, 0, str, <<>>, Len(str) + 1))
blobmsg_add_u8(buf, name, val) ==
    blobmsg_add_field(buf, Attr("INT8", name, 0, val % Pow2(8), <<>>, <<>>, 1))
blobmsg_add_u32(buf, name, val) ==
    blobmsg_add_field(buf, Attr("INT32", name, ToU32(val)[1], ToU32(val)[2], <<>>, <<>>, 4))

\* the cookie blobmsg_open_table / blobmsg_open_array return: the enclosing head
OpenCookie(buf) == Len(buf.stack)

blobmsg_open_nested(buf, name, array) ==
    [buf EXCEPT !.stack = Append(@, [id |-> IF array THEN "ARRAY" ELSE "TABLE",
                                      name |-> name, kids |-> <<>>]),
                !.log = Append(@, [ev |-> "open",
                                   id |-> IF array THEN "ARRAY" ELSE "TABLE",
                                   cookie |-> Len(buf.stack)])]
blobmsg_open_table(buf, name) == blobmsg_open_nested(buf, name, FALSE)
blobmsg_open_array(buf, name) == blobmsg_open_nested(buf, name, TRUE)

\* blob_nest_end: the head goes back to the cookie's scope, which takes in
\* what was written since
RECURSIVE NestEnd(_, _)
NestEnd(stack, c) ==
    IF Len(stack) <= c \/ Len(stack) <= 1 THEN stack
    ELSE LET n == Len(stack)
             top == stack[n]
             a == Attr(top.id, top.name, 0, 0, <<>>, top.kids, SumPadLen(top.kids))
         IN NestEnd([SubSeq(stack, 1, n - 1) EXCEPT ![n - 1].kids = Append(@, a)], c)

blob_nest_end(buf, c) ==
    [buf EXCEPT !.stack = NestEnd(buf.stack, c),
                !.log = Append(@, [ev |-> "close", id |-> buf.stack[Len(buf.stack)].id,
                                   cookie |-> c])]
blobmsg_close_table(buf, c) == blob_nest_end(buf, c)
blobmsg_close_array(buf, c) == blob_nest_end(buf, c)

\* the attributes of the container's head
HeadKids(buf) == buf.stack[1].kids

(***************************************************************************)
(* The encoder.  Each operator returns the container it leaves and its     *)
(* return value.                                                           *)
(***************************************************************************)
RECURSIVE blobmsg_add_json_element(_, _, _)
RECURSIVE AddObjectFrom(_, _, _)
RECURSIVE AddArrayFrom(_, _, _)

\* json_object_object_foreach from the i-th member on
AddObjectFrom(buf, obj, i) ==
    IF i > Len(obj.kids) THEN [b |-> buf, ret |-> TRUE]
    ELSE LET r == blobmsg_add_json_element(buf, obj.kids[i].key, obj.kids[i].val)
         IN IF ~r.ret THEN [b |-> r.b, ret |-> FALSE]
            ELSE AddObjectFrom(r.b, obj, i + 1)

blobmsg_add_object(buf, obj) == AddObjectFrom(buf, obj, 1)

\* the for loop of blobmsg_add_array from index i on; elements have no name
AddArrayFrom(buf, a, i) ==
    IF i > Len(a) THEN [b |-> buf, ret |-> TRUE]
    ELSE LET r == blobmsg_add_json_element(buf, <<>>, a[i].val)
         IN IF ~r.ret THEN [b |-> r.b, ret |-> FALSE]
            ELSE AddArrayFrom(r.b, a, i + 1)

blobmsg_add_array(buf, a) == AddArrayFrom(buf, a, 1)

\* a variant that returns on a member's failure with the scope still open
AddJsonElementNoClose(buf, name, obj) ==
    IF obj.type = "null" THEN [b |-> buf, ret |-> FALSE]
    ELSE CASE json_object_get_type(obj) = "object" ->
                LET c == OpenCookie(buf)
                    r == blobmsg_add_object(blobmsg_open_table(buf, name), obj)
                IN IF ~r.ret THEN r ELSE [b |-> blobmsg_close_table(r.b, c), ret |-> r.ret]
           [] json_object_get_type(obj) = "array" ->
                LET c == OpenCookie(buf)
                    r == blobmsg_add_array(blobmsg_open_array(buf, name), obj.kids)
                IN IF ~r.ret THEN r ELSE [b |-> blobmsg_close_array(r.b, c), ret |-> r.ret]
           [] json_object_get_type(obj) = "string" ->
                [b |-> blobmsg_add_string(buf, name, json_object_get_string(obj)),
                 ret |-> TRUE]
           [] json_object_get_type(obj) = "boolean" ->
                [b |-> blobmsg_add_u8(buf, name, json_object_get_boolean(obj)),
                 ret |-> TRUE]
           [] json_object_get_type(obj) = "int" ->
                [b |-> blobmsg_add_u32(buf, name, json_object_get_int(obj)),
                 ret |-> TRUE]
           [] OTHER -> [b |-> buf, ret |-> FALSE]

blobmsg_add_json_element(buf, name, obj) ==
    IF obj.type = "null" THEN [b |-> buf, ret |-> FALSE]
    ELSE CASE json_object_get_type(obj) = "object" ->
                LET c == OpenCookie(buf)
                    r == blobmsg_add_object(blobmsg_open_table(buf, name), obj)
                IN [b |-> blobmsg_close_table(r.b, c), ret |-> r.ret]
           [] json_object_get_type(obj) = "array" ->
                LET c == OpenCookie(buf)
                    r == blobmsg_add_array(blobmsg_open_array(buf, name), obj.kids)
                IN [b |-> blobmsg_close_array(r.b, c), ret |-> r.ret]
           [] json_object_get_type(obj) = "string" ->
                [b |-> blobmsg_add_string(buf, name, json_object_get_string(obj)),
                 ret |-> TRUE]
           [] json_object_get_type(obj) = "boolean" ->
                [b |-> blobmsg_add_u8(buf, name, json_object_get_boolean(obj)),
                 ret |-> TRUE]
           [] json_object_get_type(obj) = "int" ->
                [b |-> blobmsg_add_u32(buf, name, json_object_get_int(obj)),
                 ret |-> TRUE]
           [] OTHER -> [b |-> buf, ret |-> FALSE]

(***************************************************************************)
(* struct strbuf and blobmsg_puts.  Besides len, pos, buf and              *)
(* custom_format the record carries the allocator's part of the run:       *)
(*   isnull  s->buf is NULL                                                *)
(*   allocs  the malloc/realloc calls made so far                          *)
(*   failAt  the call that returns NULL (0: none does)                     *)
(*   failed  that call has been made                                       *)
(*   putfail blobmsg_puts has returned false                               *)
(*   ub      the run has written through NULL or beyond s->len bytes, or   *)
(*           has read an uninitialised buffer                              *)
(* buf holds the pos bytes written; a byte whose value is indeterminate    *)
(* (a fresh block taking the place of a lost one) is -1.                   *)
(***************************************************************************)
NoText == [null |-> TRUE, text |-> <<>>]
Text(t) == [null |-> FALSE, text |-> t]

\* s->custom_format(s->priv, attr): the caller's formatter.  "none" is a NULL
\* callback, "always" returns lit for every attribute, "scalars" returns lit
\* for every attribute that is no table or array, "decline" returns NULL.
IsScalar(attr) == blob_id(attr) \notin {"ARRAY", "TABLE"}
custom_format(cb, attr) ==
    CASE cb.kind = "always" -> Text(cb.lit)
      [] cb.kind = "scalars" -> IF IsScalar(attr) THEN Text(cb.lit) ELSE NoText
      [] OTHER -> NoText

\* malloc(n) / realloc(s->buf, n) with s->buf = the result
Alloc(st) ==
    LET n == st.allocs + 1
    IN IF n = st.failAt
       THEN [st EXCEPT !.allocs = n, !.isnull = TRUE, !.failed = TRUE]
       ELSE IF st.isnull
            THEN [st EXCEPT !.allocs = n, !.isnull = FALSE,
                            !.buf = Fill(Len(st.buf), -1)]
            ELSE [st EXCEPT !.allocs = n]

\* memcpy(s->buf + s->pos, c, len); s->pos += len
Memcpy(st, c, len) ==
    [st EXCEPT !.buf = @ \o SubSeq(c, 1, len),
               !.pos = @ + len,
               !.ub = @ \/ st.isnull \/ st.pos + len > st.len]

\* the buffer blobmsg_puts leaves; its callers drop its return value
blobmsg_puts(st, c, len) ==
    IF len <= 0 THEN st
    ELSE IF st.pos + len >= st.len
         THEN LET s1 == Alloc([st EXCEPT !.len = @ + GrowStep])
              IN IF s1.isnull THEN [s1 EXCEPT !.putfail = TRUE] ELSE Memcpy(s1, c, len)
         ELSE Memcpy(st, c, len)

\* the return value of blobmsg_puts
blobmsg_puts_ret(st, c, len) ==
    IF len <= 0 THEN TRUE
    ELSE IF st.pos + len >= st.len
         THEN ~Alloc([st EXCEPT !.len = @ + GrowStep]).isnull
         ELSE TRUE

(***************************************************************************)
(* blobmsg_format_string                                                   *)
(***************************************************************************)
HexDigit(d) == IF d < 10 THEN 48 + d ELSE 87 + d       \* '0'.., 'a'..
Hex2(c) == <<HexDigit(c \div 16), HexDigit(c % 16)>>   \* sprintf "%02x"

\* the value of *p, a plain char
CharValue(c) == IF charSigned /\ c >= 128 THEN c - 256 ELSE c

\* the switch on *p: the escape character, 0 for none
EscapeOf(c) ==
    CASE c = 8 -> 98                      \* '\b' -> 'b'
      [] c = 10 -> 110                    \* '\n' -> 'n'
      [] c = 9 -> 116                     \* '\t' -> 't'
      [] c = 13 -> 114                    \* '\r' -> 'r'
      [] c \in {34, 92, 47} -> c          \* '"', '\\', '/'
      [] OTHER -> IF CharValue(c) < SPACE THEN 117 ELSE 0     \* 'u'

\* the number of bytes of buf appended for an escape
EscapeLen(escape) == IF escape = 117 THEN 4 ELSE 2

\* one blobmsg_puts(s, c, len) call; uninit: c is a buffer never written to
Put(c, len) == [c |-> c, len |-> len, uninit |-> FALSE]

\* the calls of the for loop from position p on and of the two statements
\* after it, last being the start of the pending run
RECURSIVE FormatStringFrom(_, _, _)
FormatStringFrom(str, p, last) ==
    IF p > Len(str)
    THEN <<Put(SubSeq(str, last, Len(str)), Len(str) - last + 1), Put(<<34>>, 1)>>
    ELSE LET escape == EscapeOf(str[p])
         IN IF escape = 0 THEN FormatStringFrom(str, p + 1, last)
            ELSE LET buf == <<92, escape, 48, 48>>
                            \o (IF escape = 117 THEN Hex2(str[p]) ELSE <<0, 0>>)
                            \o <<0, 0>>
                 IN (IF p > last THEN <<Put(SubSeq(str, last, p - 1), p - last)>>
                     ELSE <<>>)
                    \o <<Put(buf, EscapeLen(escape))>>
                    \o FormatStringFrom(str, p + 1, p + 1)

\* the blobmsg_puts calls blobmsg_format_string makes, in order
blobmsg_format_string(str) == <<Put(<<34>>, 1)>> \o FormatStringFrom(str, 1, 1)

(***************************************************************************)
(* blobmsg_format_element, blobmsg_format_json_list                        *)
(***************************************************************************)
\* sprintf "%d" / "%lld": decimal text of a signed value
RECURSIVE DigitsOf(_)
DigitsOf(m) == IF m < 10 THEN <<48 + m>> ELSE DigitsOf(m \div 10) \o <<48 + (m % 10)>>
RECURSIVE DigitsOfNeg(_)
DigitsOfNeg(n) ==
    LET d == (10 - (n % 10)) % 10
        q == (n + d) \div 10
    IN IF q = 0 THEN <<48 + d>> ELSE DigitsOfNeg(q) \o <<48 + d>>
IntToText(n) == IF n >= 0 THEN DigitsOf(n) ELSE <<45>> \o DigitsOfNeg(n)

\* the int that "%d" prints for *(uint32_t *)data
U32AsInt(attr) == IF attr.hi = 0 THEN attr.num ELSE (attr.num - 2147483647) - 1

BlobmsgTypes == {"UNSPEC", "ARRAY", "TABLE", "STRING", "INT64", "INT32", "INT16", "INT8"}

\* blobmsg_check_attr(attr, name): the payload holds the name header, the tag
\* is a blobmsg type and the data length is the one of the tag's class (an
\* integer's width, a string with its terminating NUL)
blobmsg_check_attr(attr, name) ==
    /\ blob_len(attr) >= blobmsg_hdrlen(attr.name)
    /\ name => attr.name # <<>>
    /\ blob_id(attr) \in BlobmsgTypes
    /\ CASE blob_id(attr) = "INT8" -> blobmsg_data_len(attr) = 1
         [] blob_id(attr) = "INT16" -> blobmsg_data_len(attr) = 2
         [] blob_id(attr) = "INT32" -> blobmsg_data_len(attr) = 4
         [] blob_id(attr) = "INT64" -> blobmsg_data_len(attr) = 8
         [] blob_id(attr) = "STRING" -> blobmsg_data_len(attr) = Len(attr.str) + 1
         [] OTHER -> TRUE

\* a variant that asks the hook about scalar attributes only
ConsultScalarsOnly(cb, attr, head) ==
    IF ~head /\ cb.kind # "none" /\ IsScalar(attr) THEN custom_format(cb, attr)
    ELSE NoText

\* what the formatter hook answers for attr: NULL with head set or without a hook
ConsultCustomFormat(cb, attr, head) ==
    IF ~head /\ cb.kind # "none" THEN custom_format(cb, attr) ELSE NoText

\* a variant that puts a space after the colon
FormatNameSpaced(attr, array) ==
    IF ~array /\ blobmsg_name(attr) # <<>>
    THEN blobmsg_format_string(blobmsg_name(attr)) \o <<Put(<<58, 32>>, 2)>>
    ELSE <<>>

\* the name part: the quoted name and the colon
FormatName(attr, array) ==
    IF ~array /\ blobmsg_name(attr) # <<>>
    THEN blobmsg_format_string(blobmsg_name(attr)) \o <<Put(<<58>>, 1)>>
    ELSE <<>>

\* the opening and closing text of a list, and the separator
ListOpen(array) == IF array THEN <<91, 32>> ELSE <<123, 32>>      \* "[ " : "{ "
ListClose(array) == IF array THEN <<32, 93>> ELSE <<32, 125>>     \* " ]" : " }"
ListSep == <<44, 32>>                                             \* ", "

\* The formatting functions never read what blobmsg_puts returns or leaves in
\* the strbuf, so each is the sequence of blobmsg_puts calls it makes; cb is
\* s->custom_format.
RECURSIVE blobmsg_format_element(_, _, _, _)
RECURSIVE FormatListFrom(_, _, _, _, _)

\* the body of __blob_for_each_attr from the k-th attribute on
FormatListFrom(attrs, k, array, first, cb) ==
    IF k > Len(attrs) THEN <<>>
    ELSE (IF ~first THEN <<Put(ListSep, 2)>> ELSE <<>>)
         \o blobmsg_format_element(attrs[k], array, FALSE, cb)
         \o FormatListFrom(attrs, k + 1, array, FALSE, cb)

blobmsg_format_json_list(attrs, len, array, cb) ==
    <<Put(ListOpen(array), 2)>>
    \o FormatListFrom(attrs, 1, array, TRUE, cb)
    \o <<Put(ListClose(array), 2)>>

blobmsg_format_element(attr, array, head, cb) ==
    IF ~blobmsg_check_attr(attr, FALSE) THEN <<>>
    ELSE LET len == IF head THEN blob_len(attr) ELSE blobmsg_data_len(attr)
             data_str == ConsultCustomFormat(cb, attr, head)
         IN FormatName(attr, array)
            \o (IF ~data_str.null
                THEN <<Put(data_str.text, Len(data_str.text))>>
                ELSE CASE blob_id(attr) \in {"INT8", "INT16", "INT64"} ->
                            <<Put(IntToText(attr.num), Len(IntToText(attr.num)))>>
                       [] blob_id(attr) = "INT32" ->
                            <<Put(IntToText(U32AsInt(attr)),
                                  Len(IntToText(U32AsInt(attr))))>>
                       [] blob_id(attr) = "STRING" -> blobmsg_format_string(attr.str)
                       [] blob_id(attr) = "ARRAY" ->
                            blobmsg_format_json_list(attr.kids, len, TRUE, cb)
                       [] blob_id(attr) = "TABLE" ->
                            blobmsg_format_json_list(attr.kids, len, FALSE, cb)
                       [] OTHER -> <<[c |-> <<>>, len |-> 0, uninit |-> TRUE]>>)

(***************************************************************************)
(* blobmsg_format_json_with_cb                                             *)
(***************************************************************************)
\* s.len = blob_len(attr); s.buf = malloc(s.len); s.pos = 0; ...
StrbufInit(attr, cb, failAt) ==
    Alloc([len |-> blob_len(attr), pos |-> 0, buf |-> <<>>, isnull |-> FALSE,
           custom_format |-> cb, allocs |-> 0, failAt |-> failAt,
           failed |-> FALSE, putfail |-> FALSE, ub |-> FALSE])

\* the strbuf after the calls puts[lo..hi], made in order on st
RECURSIVE RunPuts(_, _, _, _)
RunPuts(st, puts, lo, hi) ==
    IF lo > hi THEN st
    ELSE IF lo = hi
         THEN IF puts[lo].uninit THEN [st EXCEPT !.ub = TRUE]
              ELSE blobmsg_puts(st, puts[lo].c, puts[lo].len)
         ELSE LET mid == (lo + hi) \div 2
                  s1 == RunPuts(st, puts, lo, mid)
              IN IF s1.pos >= 0 THEN RunPuts(s1, puts, mid + 1, hi) ELSE s1

\* the blobmsg_puts calls of the formatting pass
FormatPuts(attr, list, cb) ==
    IF list
    THEN blobmsg_format_json_list(attr.kids, blob_len(attr), FALSE, cb)
    ELSE blobmsg_format_element(attr, FALSE, FALSE, cb)

\* the strbuf when the formatting pass ends
FormatPass(attr, list, cb, failAt) ==
    LET puts == FormatPuts(attr, list, cb)
    IN RunPuts(StrbufInit(attr, cb, failAt), puts, 1, Len(puts))

\* a variant that tests the write position instead of the capacity
ReturnsNullUnwritten(st) == st.pos = 0

\* whether the call returns NULL after the pass
ReturnsNull(st) == st.len = 0

\* s.buf = realloc(s.buf, s.pos + 1); s.buf[s.pos] = 0
Finish(st) == LET s1 == Alloc(st) IN [s1 EXCEPT !.ub = @ \/ s1.isnull]

\* the results the call can have: NULL, the text, or, once the run has
\* written where it must not, the text or a crash
Results(st) ==
    IF ReturnsNull(st) THEN {[kind |-> "null", text |-> <<>>]}
    ELSE {[kind |-> "text", text |-> Finish(st).buf]}
         \cup (IF Finish(st).ub THEN {[kind |-> "crash", text |-> <<>>]} ELSE {})

\* blobmsg_format_json_with_cb(attr, list, cb, priv) with the failAt-th
\* allocation of the call failing: the results it can have, each with the
\* strbuf as the call leaves it
blobmsg_format_json_with_cb(attr, list, cb, failAt) ==
    LET st == FormatPass(attr, list, cb, failAt)
    IN {[out |-> r, s |-> IF ReturnsNull(st) THEN st ELSE Finish(st)] : r \in Results(st)}

(***************************************************************************)
(* json_tokener_parse: the JSON text parser the encoder's driver calls,    *)
(* also the parser that reads the formatter's output back.  It accepts the *)
(* JSON grammar (objects, arrays, strings with their escapes, integers,    *)
(* fractions as doubles, true, false, null) and nothing else; an integer   *)
(* beyond 32 bits saturates, as json_object_get_int returns it.            *)
(* A result is [ok, val, i]: i is the position after the value.            *)
(***************************************************************************)
ParseFail == [ok |-> FALSE, val |-> JNull, i |-> 0]
Parsed(v, i) == [ok |-> TRUE, val |-> v, i |-> i]

RECURSIVE SkipWs(_, _)
SkipWs(t, i) ==
    IF i <= Len(t) /\ t[i] \in {32, 9, 10, 13} THEN SkipWs(t, i + 1) ELSE i

HexVal(c) ==
    CASE c \in 48..57 -> c - 48
      [] c \in 97..102 -> c - 87
      [] c \in 65..70 -> c - 55
      [] OTHER -> -1

\* UTF-8 of a code point below 0x800
Utf8(cp) == IF cp < 128 THEN <<cp>> ELSE <<192 + (cp \div 64), 128 + (cp % 64)>>

\* the characters of a string from position i on, the opening quote read
RECURSIVE ParseStr(_, _, _)
ParseStr(t, i, acc) ==
    IF i > Len(t) THEN ParseFail
    ELSE CASE t[i] = 34 -> Parsed(JStr(acc), i + 1)
           [] t[i] = 92 ->
                IF i + 1 > Len(t) THEN ParseFail
                ELSE LET e == t[i + 1]
                     IN CASE e = 98 -> ParseStr(t, i + 2, Append(acc, 8))
                          [] e = 110 -> ParseStr(t, i + 2, Append(acc, 10))
                          [] e = 116 -> ParseStr(t, i + 2, Append(acc, 9))
                          [] e = 114 -> ParseStr(t, i + 2, Append(acc, 13))
                          [] e = 102 -> ParseStr(t, i + 2, Append(acc, 12))
                          [] e \in {34, 92, 47} -> ParseStr(t, i + 2, Append(acc, e))
                          [] e = 117 ->
                               IF i + 5 > Len(t) THEN ParseFail
                               ELSE LET h == [k \in 1..4 |-> HexVal(t[i + 1 + k])]
                                        cp == ((h[1] * 16 + h[2]) * 16 + h[3]) * 16 + h[4]
                                    IN IF (\E k \in 1..4 : h[k] < 0) \/ cp >= 2048 \/ cp = 0
                                       THEN ParseFail
                                       ELSE ParseStr(t, i + 6, acc \o Utf8(cp))
                          [] OTHER -> ParseFail
           [] t[i] < 32 -> ParseFail
           [] OTHER -> ParseStr(t, i + 1, Append(acc, t[i]))

\* the digits of a number from position i on; acc is minus the value so far
RECURSIVE ParseDigits(_, _, _)
ParseDigits(t, i, acc) ==
    IF i <= Len(t) /\ t[i] \in 48..57
    THEN LET d == t[i] - 48
         IN ParseDigits(t, i + 1,
                        IF acc < -214748364 \/ (acc = -214748364 /\ d > 8)
                        THEN -2147483647 - 1
                        ELSE acc * 10 - d)
    ELSE [acc |-> acc, i |-> i]

ParseNumber(t, i) ==
    LET neg == t[i] = 45
        j == IF neg THEN i + 1 ELSE i
        r == ParseDigits(t, j, 0)
    IN IF r.i = j THEN ParseFail
       ELSE IF r.i <= Len(t) /\ t[r.i] \in {46, 101, 69}
            THEN LET f == ParseDigits(t, r.i + 1, 0)
                 IN IF f.i = r.i + 1 THEN ParseFail ELSE Parsed(JDouble, f.i)
            ELSE Parsed(JInt(IF neg THEN r.acc
                             ELSE IF r.acc = -2147483647 - 1 THEN 2147483647
                             ELSE 0 - r.acc), r.i)

HasAt(t, i, w) == i + Len(w) - 1 <= Len(t) /\ SubSeq(t, i, i + Len(w) - 1) = w

RECURSIVE ParseValue(_, _)
RECURSIVE ParseMembers(_, _, _)
RECURSIVE ParseElems(_, _, _)

\* the members of an object from position i on, acc being those read
ParseMembers(t, i, acc) ==
    LET j == SkipWs(t, i)
    IN IF j > Len(t) \/ t[j] # 34 THEN ParseFail
       ELSE LET k == ParseStr(t, j + 1, <<>>)
                l == SkipWs(t, k.i)
            IN IF ~k.ok \/ l > Len(t) \/ t[l] # 58 THEN ParseFail
               ELSE LET v == ParseValue(t, l + 1)
                        m == SkipWs(t, v.i)
                        got == Append(acc, [key |-> k.val.s, val |-> v.val])
                    IN IF ~v.ok \/ m > Len(t) THEN ParseFail
                       ELSE IF t[m] = 44 THEN ParseMembers(t, m + 1, got)
                       ELSE IF t[m] = 125
                            THEN Parsed([type |-> "object", i |-> 0, s |-> <<>>,
                                         kids |-> got], m + 1)
                       ELSE ParseFail

\* the elements of an array from position i on, acc being those read
ParseElems(t, i, acc) ==
    LET v == ParseValue(t, i)
        m == SkipWs(t, v.i)
        got == Append(acc, [key |-> <<>>, val |-> v.val])
    IN IF ~v.ok \/ m > Len(t) THEN ParseFail
       ELSE IF t[m] = 44 THEN ParseElems(t, m + 1, got)
       ELSE IF t[m] = 93
            THEN Parsed([type |-> "array", i |-> 0, s |-> <<>>, kids |-> got], m + 1)
       ELSE ParseFail

ParseValue(t, i) ==
    LET j == SkipWs(t, i)
    IN IF j > Len(t) THEN ParseFail
       ELSE CASE t[j] = 123 ->
                   IF SkipWs(t, j + 1) <= Len(t) /\ t[SkipWs(t, j + 1)] = 125
                   THEN Parsed(JObj(<<>>), SkipWs(t, j + 1) + 1)
                   ELSE ParseMembers(t, j + 1, <<>>)
              [] t[j] = 91 ->
                   IF SkipWs(t, j + 1) <= Len(t) /\ t[SkipWs(t, j + 1)] = 93
                   THEN Parsed(JArr(<<>>), SkipWs(t, j + 1) + 1)
                   ELSE ParseElems(t, j + 1, <<>>)
              [] t[j] = 34 -> ParseStr(t, j + 1, <<>>)
              [] t[j] = 45 \/ t[j] \in 48..57 -> ParseNumber(t, j)
              [] HasAt(t, j, <<116, 114, 117, 101>>) -> Parsed(JBool(TRUE), j + 4)
              [] HasAt(t, j, <<102, 97, 108, 115, 101>>) -> Parsed(JBool(FALSE), j + 5)
              [] HasAt(t, j, <<110, 117, 108, 108>>) -> Parsed(JNull, j + 4)
              [] OTHER -> ParseFail

\* the parse of a whole text: [ok, val]; ~ok is is_error(obj)
json_tokener_parse(t) ==
    LET r == ParseValue(t, 1)
    IN IF r.ok /\ SkipWs(t, r.i) = Len(t) + 1
       THEN [ok |-> TRUE, val |-> r.val]
       ELSE [ok |-> FALSE, val |-> JNull]

(***************************************************************************)
(* blobmsg_add_json_from_string                                            *)
(***************************************************************************)
\* a variant without the test of the root's type
AddJsonFromStringAnyRoot(buf, str) ==
    LET obj == json_tokener_parse(str)
    IN IF ~obj.ok THEN [b |-> buf, ret |-> FALSE]
       ELSE blobmsg_add_object(buf, obj.val)

blobmsg_add_json_from_string(buf, str) ==
    LET obj == json_tokener_parse(str)
    IN IF ~obj.ok THEN [b |-> buf, ret |-> FALSE]
       ELSE IF json_object_get_type(obj.val) # "object" THEN [b |-> buf, ret |-> FALSE]
       ELSE blobmsg_add_object(buf, obj.val)

(***************************************************************************)
(* The inputs of the model: JSON texts, value trees, formatter hooks and    *)
(* blobs received from outside.                                            *)
(***************************************************************************)
NameA == <<97>>    \* 'a'
NameB == <<98>>    \* 'b'
NameK == <<107>>    \* 'k'
NameP == <<112>>    \* 'p'
NameQ == <<113>>    \* 'q'
NameId == <<105, 100>>    \* 'id'
NameM == <<109>>    \* 'm'
NameT == <<116>>    \* 't'
StrX == <<120>>    \* 'x'
StrQuote == <<97, 34, 98, 92, 47>>    \* 'a"b\\/'
StrCtl == <<1, 122>>    \* b'\x01z'
StrHigh == <<195, 169>>    \* b'\xc3\xa9'
StrTabs == <<9, 13, 10, 8>>    \* b'\t\r\n\x08'
LitRedacted ==    \* "<redacted>"
    <<34, 60, 114, 101, 100, 97, 99, 116, 101, 100, 62, 34>>
LitLong ==    \* "**************************************"
    <<34, 42, 42, 42, 42, 42, 42, 42, 42, 42, 42, 42, 42, 42, 42, 42, 42, 42, 42, 42, 42, 42, 42, 42, 42, 42, 42, 42, 42, 42, 42, 42, 42, 42, 42, 42, 42, 42, 42, 34>>
TextAB ==    \* {"a":1,"b":"x"}
    <<123, 34, 97, 34, 58, 49, 44, 34, 98, 34, 58, 34, 120, 34, 125>>
TextArr ==    \* {"arr":[1,2,3]}
    <<123, 34, 97, 114, 114, 34, 58, 91, 49, 44, 50, 44, 51, 93, 125>>
TextArrayRoot ==    \* [1,2]
    <<91, 49, 44, 50, 93>>
TextEmptyObj ==    \* {}
    <<123, 125>>
TextNewline ==    \* {"s":"line1\nline2"}
    <<123, 34, 115, 34, 58, 34, 108, 105, 110, 101, 49, 92, 110, 108, 105, 110, 101, 50, 34, 125>>
TextTruncated ==    \* {"a":
    <<123, 34, 97, 34, 58>>
TextMixed ==    \* {"t":true,"n":-5,"o":{"k":[false]}}
    <<123, 34, 116, 34, 58, 116, 114, 117, 101, 44, 34, 110, 34, 58, 45, 53, 44, 34, 111, 34, 58, 123, 34, 107, 34, 58, 91, 102, 97, 108, 115, 101, 93, 125, 125>>
TextNullMember ==    \* {"a":1,"z":null,"b":2}
    <<123, 34, 97, 34, 58, 49, 44, 34, 122, 34, 58, 110, 117, 108, 108, 44, 34, 98, 34, 58, 50, 125>>
TextIntRoot ==    \* 7
    <<55>>
TextNullRoot ==    \* null
    <<110, 117, 108, 108>>
SampleTexts ==
    {TextAB, TextArr, TextArrayRoot, TextEmptyObj, TextNewline,
     TextTruncated, TextMixed, TextNullMember, TextIntRoot, TextNullRoot}

\* the texts of section 8's scenarios, as the code renders them and as the
\* scenarios spell them
OutAB ==    \* { "a":1, "b":"x" }
    <<123, 32, 34, 97, 34, 58, 49, 44, 32, 34, 98, 34, 58, 34, 120, 34, 32, 125>>
OutArr ==    \* { "arr":[ 1, 2, 3 ] }
    <<123, 32, 34, 97, 114, 114, 34, 58, 91, 32, 49, 44, 32, 50, 44, 32, 51, 32, 93, 32, 125>>
SpecOutAB ==    \* { "a": 1, "b": "x" }
    <<123, 32, 34, 97, 34, 58, 32, 49, 44, 32, 34, 98, 34, 58, 32, 34, 120, 34, 32, 125>>
SpecOutArr ==    \* { "arr": [ 1, 2, 3 ] }
    <<123, 32, 34, 97, 114, 114, 34, 58, 32, 91, 32, 49, 44, 32, 50, 44, 32, 51, 32, 93, 32, 125>>
OutEmpty ==    \* {  }
    <<123, 32, 32, 125>>

IntMin == -2147483647 - 1

\* <<name, node>>: the arguments of blobmsg_add_json_element
SampleElements ==
    {<<NameK, JInt(2147483647)>>,
     <<NameK, JInt(IntMin)>>,
     <<NameK, JBool(TRUE)>>,
     <<NameK, JStr(StrQuote)>>,
     <<NameK, JStr(StrCtl)>>,
     <<NameK, JStr(StrHigh)>>,
     <<NameK, JStr(StrTabs)>>,
     <<NameK, JNull>>,
     <<NameK, JDouble>>,
     <<<<>>, JInt(0)>>,
     <<NameK, JObj(<<>>)>>,
     <<NameK, JArr(<<>>)>>,
     <<NameK, JArr(<<JInt(1), JDouble, JInt(2)>>)>>,
     <<NameK, JObj(<< <<NameP, JObj(<< <<NameQ, JArr(<<JInt(1), JStr(StrX)>>)>> >>)>>,
                      <<NameB, JBool(FALSE)>> >>)>>,
     <<NameK, JObj(<< <<NameA, JInt(1)>>,
                      <<NameP, JObj(<< <<NameQ, JNull>>, <<NameB, JInt(2)>> >>)>>,
                      <<NameT, JInt(3)>> >>)>>,
     <<NameK, JObj(<< <<<<>>, JInt(1)>> >>)>>}

NoCb == [kind |-> "none", lit |-> <<>>]
Callbacks ==
    {NoCb,
     [kind |-> "decline", lit |-> <<>>],
     [kind |-> "always", lit |-> LitRedacted],
     [kind |-> "scalars", lit |-> LitRedacted],
     [kind |-> "always", lit |-> LitLong]}

\* a container's head: its payload is its attributes, it has no name header
HeadOf(kids) ==
    [id |-> "HEAD", name |-> <<>>, hi |-> 0, num |-> 0, str |-> <<>>, kids |-> kids,
     plen |-> SumPadLen(kids)]
blob_buf_head(buf) == HeadOf(HeadKids(buf))

\* attributes as they arrive from outside, some of them malformed
WireInt(name, v) == Attr("INT32", name, 0, v, <<>>, <<>>, 4)
WireStr(name, str) == Attr("STRING", name, 0, 0, str, <<>>, Len(str) + 1)
WireList(id, name, kids) == Attr(id, name, 0, 0, <<>>, kids, SumPadLen(kids))
BadShortInt == Attr("INT32", NameM, 0, 5, <<>>, <<>>, 2)      \* 2 bytes of data
BadNoNul == Attr("STRING", NameM, 0, 0, StrX, <<>>, 1)        \* no terminating NUL
BadTag == Attr("BAD", NameM, 0, 0, <<>>, <<>>, 4)             \* tag beyond the last type
WireUnspec == Attr("UNSPEC", NameM, 0, 0, <<>>, <<>>, 4)      \* BLOBMSG_TYPE_UNSPEC
BadEmpty ==                                                   \* no payload at all
    [id |-> "INT8", name |-> <<>>, hi |-> 0, num |-> 0, str |-> <<>>, kids |-> <<>>,
     plen |-> 0]

WireAttrs ==
    {WireInt(NameA, 1), WireInt(<<>>, 7),
     Attr("INT8", NameA, 0, 255, <<>>, <<>>, 1),
     Attr("INT16", NameA, 0, 65535, <<>>, <<>>, 2),
     Attr("INT64", NameA, 0, 123456, <<>>, <<>>, 8),
     Attr("INT32", NameA, 1, 2147483647, <<>>, <<>>, 4),
     WireStr(NameA, StrX), WireStr(<<>>, StrQuote), WireStr(<<>>, StrCtl),
     WireStr(<<>>, StrHigh), WireStr(<<>>, StrTabs), WireStr(<<>>, <<>>),
     WireStr(StrCtl, StrX),
     WireList("TABLE", NameT, <<WireInt(NameA, 1), BadShortInt, WireInt(NameB, 2)>>),
     WireList("ARRAY", NameT, <<WireInt(<<>>, 1), WireStr(<<>>, StrX)>>),
     BadShortInt, BadNoNul, BadTag, BadEmpty, WireUnspec}

WireHeads ==
    {HeadOf(<<>>),
     HeadOf(<<WireInt(NameA, 1), WireInt(NameB, 2)>>),
     HeadOf(<<WireInt(NameA, 1), BadShortInt, WireInt(NameB, 2)>>),
     HeadOf(<<BadNoNul, WireInt(NameA, 1)>>),
     HeadOf(<<WireInt(NameA, 1), BadTag>>),
     HeadOf(<<BadShortInt>>),
     HeadOf(<<WireList("ARRAY", NameT, <<WireInt(<<>>, 1), BadShortInt, WireInt(<<>>, 2)>>),
              WireList("TABLE", NameK, <<BadTag, WireStr(NameA, StrX)>>)>>),
     HeadOf(<<WireList("TABLE", NameT,
                       <<WireList("ARRAY", NameK, <<WireInt(<<>>, 1), WireStr(<<>>, StrX)>>),
                         WireInt(NameA, 1)>>),
              WireStr(NameB, StrQuote)>>)}

(***************************************************************************)
(* The calls a program makes.  call records the last one:                  *)
(*   op      "init", "add_field", "from_string", "element" or "format"     *)
(*   str     the text given to blobmsg_add_json_from_string                *)
(*   name, obj   the arguments of blobmsg_add_json_element                 *)
(*   attr, list, cb, failAt   the arguments of blobmsg_format_json_with_cb *)
(*           and the allocation that failed in it                          *)
(*   before  the container before the call                                 *)
(* A run builds a message with encoder calls and then formats once: out    *)
(* is NoOut until the formatting call has been made.                       *)
(***************************************************************************)
NoOut == [kind |-> "none", text |-> <<>>]
NoStrbuf ==
    [len |-> 0, pos |-> 0, buf |-> <<>>, isnull |-> FALSE, custom_format |-> NoCb,
     allocs |-> 0, failAt |-> 0, failed |-> FALSE, putfail |-> FALSE, ub |-> FALSE]
NoCall ==
    [op |-> "init", str |-> <<>>, name |-> <<>>, obj |-> JNull, attr |-> HeadOf(<<>>),
     list |-> FALSE, cb |-> NoCb, failAt |-> 0, before |-> EmptyBuf]

FormatCall(attr, list, cb, failAt, buf) ==
    [NoCall EXCEPT !.op = "format", !.attr = attr, !.list = list, !.cb = cb,
                   !.failAt = failAt, !.before = buf]

\* src after an encoder call that was given members, found the container buf
\* and returned r: a call that fails and leaves the container as it was adds
\* nothing, one that fails midway leaves a part of the members behind
Encoded(old, members, buf, r) ==
    IF r.ret THEN [old EXCEPT !.kids = @ \o members]
    ELSE IF r.b = buf THEN old
    ELSE [old EXCEPT !.ok = FALSE]

Init ==
    /\ b = EmptyBuf
    /\ ret = TRUE
    /\ out = NoOut
    /\ s = NoStrbuf
    /\ call = NoCall
    /\ calls = 0
    /\ src = [ok |-> TRUE, kids |-> <<>>]
    /\ charSigned \in BOOLEAN

\* the caller fills in a field of its own before it adds the JSON members
CallerAddsField ==
    /\ out = NoOut
    /\ calls = 0
    /\ b = EmptyBuf
    /\ b' = blobmsg_add_u32(b, NameId, 7)
    /\ call' = [NoCall EXCEPT !.op = "add_field", !.before = b]
    /\ src' = [src EXCEPT !.kids = Append(@, [key |-> NameId, val |-> JInt(7)])]
    /\ out' = NoOut
    /\ s' = NoStrbuf
    /\ UNCHANGED <<ret, calls, charSigned>>

AddJsonFromString ==
    /\ out = NoOut
    /\ calls < MaxCalls
    /\ \E str \in SampleTexts :
         LET r == blobmsg_add_json_from_string(b, str)
         IN /\ b' = r.b
            /\ ret' = r.ret
            /\ call' = [NoCall EXCEPT !.op = "from_string", !.str = str, !.before = b]
            /\ src' = Encoded(src, json_tokener_parse(str).val.kids, b, r)
    /\ calls' = calls + 1
    /\ out' = NoOut
    /\ s' = NoStrbuf
    /\ UNCHANGED charSigned

AddJsonElement ==
    /\ out = NoOut
    /\ calls < MaxCalls
    /\ \E e \in SampleElements :
         LET r == blobmsg_add_json_element(b, e[1], e[2])
         IN /\ b' = r.b
            /\ ret' = r.ret
            /\ call' = [NoCall EXCEPT !.op = "element", !.name = e[1], !.obj = e[2],
                                      !.before = b]
            /\ src' = Encoded(src, <<[key |-> e[1], val |-> e[2]]>>, b, r)
    /\ calls' = calls + 1
    /\ out' = NoOut
    /\ s' = NoStrbuf
    /\ UNCHANGED charSigned

\* the container formatted as a list
FormatContainer ==
    /\ out = NoOut
    /\ \E cb \in Callbacks, failAt \in 0..MaxFailAt :
         \E r \in blobmsg_format_json_with_cb(blob_buf_head(b), TRUE, cb, failAt) :
            /\ out' = r.out
            /\ s' = r.s
            /\ call' = FormatCall(blob_buf_head(b), TRUE, cb, failAt, b)
    /\ UNCHANGED <<b, ret, calls, src, charSigned>>

\* a received attribute formatted as one element
FormatWireAttr ==
    /\ out = NoOut
    /\ \E attr \in WireAttrs, cb \in Callbacks, failAt \in 0..MaxFailAt :
         \E r \in blobmsg_format_json_with_cb(attr, FALSE, cb, failAt) :
            /\ out' = r.out
            /\ s' = r.s
            /\ call' = FormatCall(attr, FALSE, cb, failAt, b)
    /\ UNCHANGED <<b, ret, calls, src, charSigned>>

\* a received container formatted as a list
FormatWireList ==
    /\ out = NoOut
    /\ \E attr \in WireHeads, cb \in Callbacks, failAt \in 0..MaxFailAt :
         \E r \in blobmsg_format_json_with_cb(attr, TRUE, cb, failAt) :
            /\ out' = r.out
            /\ s' = r.s
            /\ call' = FormatCall(attr, TRUE, cb, failAt, b)
    /\ UNCHANGED <<b, ret, calls, src, charSigned>>

Next == CallerAddsField \/ AddJsonFromString \/ AddJsonElement \/ FormatContainer

Spec == Init /\ [][Next]_vars

NextWire == FormatWireAttr \/ FormatWireList

SpecWire == Init /\ [][NextWire]_vars

(***************************************************************************)
(* What the claims are stated with.                                        *)
(***************************************************************************)
IsEncode == call.op \in {"element", "from_string"}
IsFormat == call.op = "format"

\* a node the encoder has a case for, all the way down
RECURSIVE Supported(_)
Supported(obj) ==
    CASE obj.type \in {"string", "boolean", "int"} -> TRUE
      [] obj.type \in {"object", "array"} ->
           \A k \in 1..Len(obj.kids) : Supported(obj.kids[k].val)
      [] OTHER -> FALSE

\* the attributes the container is to receive for a node: a table or array
\* holds its members up to and including the first that fails, whose own
\* content is cut the same way; a node of no supported kind leaves nothing
RECURSIVE RefEncode(_, _)
RECURSIVE RefEncodeKids(_, _)
RefEncodeKids(kids, array) ==
    IF kids = <<>> THEN <<>>
    ELSE RefEncode(IF array THEN <<>> ELSE Head(kids).key, Head(kids).val)
         \o (IF Supported(Head(kids).val) THEN RefEncodeKids(Tail(kids), array)
             ELSE <<>>)
RefEncode(name, obj) ==
    CASE obj.type = "object" ->
           <<Attr("TABLE", name, 0, 0, <<>>, RefEncodeKids(obj.kids, FALSE),
                  SumPadLen(RefEncodeKids(obj.kids, FALSE)))>>
      [] obj.type = "array" ->
           <<Attr("ARRAY", name, 0, 0, <<>>, RefEncodeKids(obj.kids, TRUE),
                  SumPadLen(RefEncodeKids(obj.kids, TRUE)))>>
      [] obj.type = "string" -> <<Attr("STRING", name, 0, 0, obj.s, <<>>, Len(obj.s) + 1)>>
      [] obj.type = "boolean" -> <<Attr("INT8", name, 0, obj.i, <<>>, <<>>, 1)>>
      [] obj.type = "int" ->
           <<Attr("INT32", name, IF obj.i < 0 THEN 1 ELSE 0,
                  IF obj.i < 0 THEN obj.i + 2147483647 + 1 ELSE obj.i, <<>>, <<>>, 4)>>
      [] OTHER -> <<>>

\* the log's entries from the k-th on open and close scopes last-opened
\* first-closed and leave none open; open holds the cookies of the open ones
RECURSIVE Bracketed(_, _, _)
Bracketed(log, k, open) ==
    IF k > Len(log) THEN open = <<>>
    ELSE CASE log[k].ev = "open" -> Bracketed(log, k + 1, Append(open, log[k].cookie))
           [] log[k].ev = "close" ->
                /\ open # <<>>
                /\ open[Len(open)] = log[k].cookie
                /\ Bracketed(log, k + 1, SubSeq(open, 1, Len(open) - 1))
           [] OTHER -> Bracketed(log, k + 1, open)

\* C2: blobmsg_add_json_from_string returns false and leaves the container
\* exactly as it was (no attribute appended, no scope opened) whenever the
\* text fails to parse or parses to a root that is no object.
C2_RejectLeavesContainer ==
    (call.op = "from_string"
     /\ (~json_tokener_parse(call.str).ok
         \/ json_tokener_parse(call.str).val.type # "object"))
    => (ret = FALSE /\ b = call.before)

\* the array root [1,2] was refused on a container that held a field
C2_Witness ==
    /\ call.op = "from_string"
    /\ call.str = TextArrayRoot
    /\ HeadKids(call.before) # <<>>
    /\ ret = FALSE
    /\ b = call.before

\* C9: an encoder call leaves every scope it opened closed, scopes being
\* closed last-opened first-closed; blobmsg_add_json_element fails exactly
\* when the node or one of its members has no supported kind, the container
\* then holding the members up to the first that failed and nothing after it;
\* a node of no supported kind opens no scope and appends nothing.
C9_ScopeDiscipline ==
    IsEncode =>
        /\ Len(b.stack) = Len(call.before.stack)
        /\ Bracketed(b.log, Len(call.before.log) + 1, <<>>)
        /\ call.op = "element" =>
             /\ ret = Supported(call.obj)
             /\ HeadKids(b) = HeadKids(call.before) \o RefEncode(call.name, call.obj)
             /\ call.obj.type \notin {"object", "array", "string", "boolean", "int"}
                  => b = call.before
        /\ (call.op = "from_string" /\ json_tokener_parse(call.str).ok
            /\ json_tokener_parse(call.str).val.type = "object") =>
             /\ ret = Supported(json_tokener_parse(call.str).val)
             /\ HeadKids(b) = HeadKids(call.before)
                              \o RefEncodeKids(json_tokener_parse(call.str).val.kids, FALSE)

\* a member two scopes down failed: the call failed, both scopes are closed
\* and the members before it are in the container
C9_Witness ==
    /\ call.op = "element"
    /\ call.obj.type = "object"
    /\ \E k \in 1..Len(call.obj.kids) :
          /\ call.obj.kids[k].val.type = "object"
          /\ ~Supported(call.obj.kids[k].val)
          /\ k > 1
    /\ ret = FALSE
    /\ Len(b.stack) = 1
    /\ Len(HeadKids(b)) = Len(HeadKids(call.before)) + 1

(***************************************************************************)
(* Reference renderings, written from the documented output format.        *)
(***************************************************************************)
\* the bytes the calls puts[lo..hi] append when every one of them succeeds
RECURSIVE PutsText(_, _, _)
PutsText(puts, lo, hi) ==
    IF lo > hi THEN <<>>
    ELSE IF lo = hi THEN SubSeq(puts[lo].c, 1, puts[lo].len)
    ELSE PutsText(puts, lo, (lo + hi) \div 2) \o PutsText(puts, (lo + hi) \div 2 + 1, hi)

\* the text of a scalar attribute's value
RefScalar(attr) ==
    LET puts == blobmsg_format_element(attr, TRUE, FALSE, NoCb)
    IN PutsText(puts, 1, Len(puts))

\* a member's name and colon; the names of the messages built here hold no
\* byte that is escaped
RefName(attr, array) ==
    IF ~array /\ attr.name # <<>> THEN <<34>> \o attr.name \o <<34, 58>> ELSE <<>>

\* the text of a list in which the formatter cb answers with its literal for
\* every attribute ("always"), for the scalar ones ("scalars") or for none
RECURSIVE RefAttr(_, _, _)
RECURSIVE RefKids(_, _, _, _)
RECURSIVE RefList(_, _, _)
RefAttr(attr, array, cb) ==
    RefName(attr, array)
    \o (IF cb.kind = "always" \/ (cb.kind = "scalars" /\ IsScalar(attr)) THEN cb.lit
        ELSE IF IsScalar(attr) THEN RefScalar(attr)
        ELSE RefList(attr.kids, blob_id(attr) = "ARRAY", cb))
RefKids(kids, array, cb, k) ==
    IF k > Len(kids) THEN <<>>
    ELSE (IF k > 1 THEN <<44, 32>> ELSE <<>>)
         \o RefAttr(kids[k], array, cb)
         \o RefKids(kids, array, cb, k + 1)
RefList(kids, array, cb) ==
    (IF array THEN <<91, 32>> ELSE <<123, 32>>)
    \o RefKids(kids, array, cb, 1)
    \o (IF array THEN <<32, 93>> ELSE <<32, 125>>)

\* the container that encoding a text into an empty one gives
EncodedHead(text) == blob_buf_head(blobmsg_add_json_from_string(EmptyBuf, text).b)

\* a formatting call of the container as a list in which no allocation failed;
\* s.ub tells whether an append of it went beyond the buffer
ListCall == IsFormat /\ call.list /\ ~s.failed

\* the value tree whose members the encoder calls of the run were given
SrcTree == [type |-> "object", i |-> 0, s |-> <<>>, kids |-> src.kids]

\* C1: the members of a tree of Object, Array, String, Boolean and Integer
\* nodes, encoded and then formatted as a list with no custom formatter,
\* give a text whose parse is the tree: same kinds, same names, same order.
C1_RoundTrip ==
    (ListCall /\ call.cb.kind = "none" /\ src.ok)
    => (out.kind = "text"
        /\ json_tokener_parse(out.text) = [ok |-> TRUE, val |-> SrcTree])

\* C3 as the specification words it: a formatter that answers with the
\* same literal for every attribute leaves nested tables and arrays as lists
\* and replaces the scalar leaves only.
C3_ScalarsOnlyReplaced ==
    (ListCall /\ ~s.ub /\ call.cb.kind = "always")
    => /\ out.kind = "text"
       /\ out.text = RefList(call.attr.kids, FALSE, [call.cb EXCEPT !.kind = "scalars"])

\* C3: the formatter is asked about every attribute below the formatted
\* list, tables and arrays included, and its answer replaces the whole of the
\* attribute's value: a formatter answering for scalars only gives the
\* document with each scalar leaf replaced, one answering for every attribute
\* gives a list whose members are all the literal, whatever they held.
C3_FormatterReplaces ==
    (ListCall /\ ~s.ub /\ call.cb.kind \in {"always", "scalars"})
    => /\ out.kind = "text"
       /\ out.text = RefList(call.attr.kids, FALSE, call.cb)

\* a member that is a table came out as the literal
C3_Witness ==
    /\ ListCall
    /\ call.cb = [kind |-> "always", lit |-> LitRedacted]
    /\ \E k \in 1..Len(call.attr.kids) :
          /\ blob_id(call.attr.kids[k]) = "TABLE"
          /\ call.attr.kids[k].kids # <<>>
    /\ Len(call.attr.kids) = 1
    /\ out = [kind |-> "text",
              text |-> <<123, 32, 34>> \o NameK \o <<34, 58>> \o LitRedacted \o <<32, 125>>]

\* C4 as the specification words it: a named member is its quoted name, a
\* colon, one space and its value, so that the two sample texts come out as
\* { "a": 1, "b": "x" } and { "arr": [ 1, 2, 3 ] }.
C4_SpacedColon ==
    (ListCall /\ call.cb.kind = "none")
    => /\ call.attr = EncodedHead(TextAB) => out.text = SpecOutAB
       /\ call.attr = EncodedHead(TextArr) => out.text = SpecOutArr

\* C4: the children of a table or array come in encoding order between "{ "
\* and " }" (or "[ " and " ]"), separated by ", ", a named member being its
\* quoted name, a colon and its value with no space in between: the two
\* sample texts come out as { "a":1, "b":"x" } and { "arr":[ 1, 2, 3 ] }.
C4_ListText ==
    (ListCall /\ call.cb.kind = "none")
    => /\ out.kind = "text"
       /\ out.text = RefList(call.attr.kids, FALSE, NoCb)
       /\ call.attr = EncodedHead(TextAB) => out.text = OutAB
       /\ call.attr = EncodedHead(TextArr) => out.text = OutArr

\* the text {"arr":[1,2,3]} was encoded and formatted
C4_Witness ==
    /\ ListCall
    /\ call.cb.kind = "none"
    /\ call.attr = EncodedHead(TextArr)
    /\ out = [kind |-> "text", text |-> OutArr]

\* C5: the call returns NULL, never an empty string, whenever the pass
\* wrote no byte of text.
C5_NullWhenNothingWritten ==
    (IsFormat /\ s.pos = 0) => out.kind = "null"

\* C5: the call returns NULL exactly when the attribute's payload is empty
\* and it is formatted as a single attribute.  A single attribute that fails
\* the check and has a payload gives the empty string, and the empty
\* container formatted as a list gives the text {  }.
C5_NullOnEmptyPayload ==
    IsFormat =>
        /\ out.kind = "null" <=> (blob_len(call.attr) = 0 /\ ~call.list)
        /\ (~call.list /\ ~blobmsg_check_attr(call.attr, FALSE)
            /\ blob_len(call.attr) > 0 /\ ~s.failed)
           => out = [kind |-> "text", text |-> <<>>]
        /\ (call.list /\ call.attr = HeadOf(<<>>) /\ ~s.failed)
           => out = [kind |-> "text", text |-> OutEmpty]

\* an integer attribute with two bytes of data came out as the empty string
C5_Witness ==
    /\ IsFormat
    /\ ~call.list
    /\ call.attr = BadShortInt
    /\ s.pos = 0
    /\ out = [kind |-> "text", text |-> <<>>]

\* C6: when growing the buffer fails in an append of the pass, the call
\* returns NULL instead of text.
C6_GrowthFailureGivesNull ==
    (IsFormat /\ s.putfail) => out.kind = "null"

\* C7: as long as the appends succeed the position never exceeds the
\* capacity, whatever their lengths.
C7_PosWithinLen ==
    (IsFormat /\ ~s.failed) => s.pos <= s.len

\* the text the escaping table gives for one byte and for a string
SpecEscapeByte(c) ==
    CASE c = 8 -> <<92, 98>>
      [] c = 10 -> <<92, 110>>
      [] c = 9 -> <<92, 116>>
      [] c = 13 -> <<92, 114>>
      [] c \in {34, 92, 47} -> <<92, c>>
      [] c < 32 -> <<92, 117, 48, 48>> \o Hex2(c)
      [] OTHER -> <<c>>
RECURSIVE SpecEscapeFrom(_, _)
SpecEscapeFrom(str, k) ==
    IF k > Len(str) THEN <<>> ELSE SpecEscapeByte(str[k]) \o SpecEscapeFrom(str, k + 1)
SpecEscape(str) == <<34>> \o SpecEscapeFrom(str, 1) \o <<34>>

\* C8: a string attribute comes out as the escaping table spells it, bytes
\* from 0x80 on unchanged, and a JSON parser reads the text back as the
\* string.
C8_EscapingTable ==
    (IsFormat /\ ~call.list /\ blob_id(call.attr) = "STRING"
     /\ blobmsg_check_attr(call.attr, FALSE) /\ blobmsg_name(call.attr) = <<>>
     /\ call.cb.kind \in {"none", "decline"} /\ ~s.failed)
    => /\ out = [kind |-> "text", text |-> SpecEscape(call.attr.str)]
       /\ json_tokener_parse(out.text) = [ok |-> TRUE, val |-> JStr(call.attr.str)]

\* the children that pass the check, those of nested lists included
RECURSIVE WellFormedKids(_, _)
WellFormedKids(kids, k) ==
    IF k > Len(kids) THEN <<>>
    ELSE (IF blobmsg_check_attr(kids[k], FALSE)
          THEN <<[kids[k] EXCEPT !.kids = WellFormedKids(@, 1)]>>
          ELSE <<>>)
         \o WellFormedKids(kids, k + 1)

\* C10: a child that fails the check renders nothing, so that the text is
\* the one of the same list without that child and ", " stands only between
\* two children that came out.
C10_MalformedChildLeavesNoTrace ==
    (ListCall /\ call.cb.kind = "none" /\ out.kind = "text")
    => out.text = RefList(WellFormedKids(call.attr.kids, 1), FALSE, NoCb)

====
